---- MODULE Spec2Model ----
(***************************************************************************)
(* Device Virtual service (internal/device/virtual/service.go): the        *)
(* registry of virtual devices, the stop channels, the per-device          *)
(* generateDeviceData goroutines and the HTTP lifecycle handlers.          *)
(*                                                                         *)
(* Granularity.  A handler is cut at the places where another goroutine    *)
(* can observe it: the call, the first half of the section guarded by      *)
(* s.mutex.Lock(), the second half ending in Unlock(), and the response.   *)
(* generateDeviceData takes no lock at all, so each of its statements is   *)
(* a step of its own: evaluating the select operands (the unlocked read    *)
(* of s.stopChannels), firing one of the select cases, and                 *)
(* publishSensorReading.                                                   *)
(***************************************************************************)
EXTENDS Integers, Sequences, FiniteSets, TLC

\* ---- bounds ----
NumClients == 2      \* concurrent HTTP requests in flight
MaxCreates == 1      \* createVirtualDevice requests that are served
MaxUpdates == 1      \* updateVirtualDevice requests that are served
MaxLoops == 2        \* goroutines ever spawned (and channels ever made)
RawScale == 10000    \* the raw samples of rand.Float64() are the multiples of 1/RawScale
MaxDataCalls == 3    \* Core Data requests ever issued
MaxCalls == 3        \* HTTP requests ever issued
MaxInits == 2        \* calls of Initialize
MaxCommandCalls == 3 \* Core Command requests ever issued
MaxMetaCalls == 3    \* Core Metadata requests ever issued
MaxClock == 3        \* the values time.Now() returns are 1..MaxClock
MaxSchedCalls == 3   \* scheduler requests ever issued

\* ---- program constants ----
NumDefaultDevices == 3

Clients == 1..NumClients
MaxIds == NumDefaultDevices + MaxCreates
Ids == 1..MaxIds
MaxObjs == NumDefaultDevices + MaxCreates + MaxUpdates
NoObj == 0           \* absent map entry of virtualDevices
NilChan == 0         \* absent map entry of stopChannels: a nil channel
ZeroTime == 0        \* time.Time{} ; 1 stands for a time.Now() value
Times == {0, 1}

StatusOK == 200
StatusCreated == 201
StatusNotFound == 404
StatusBadRequest == 400
StatusMethodNotAllowed == 405

VARIABLES
    virtualDevices,  \* s.virtualDevices: id -> pointer (index into heap), NoObj if absent
    heap,            \* the VirtualDevice objects ever allocated
    stopChannels,    \* s.stopChannels: id -> channel, NilChan if absent
    chans,           \* the channels ever made; chans[c] = TRUE iff closed
    loops,           \* the generateDeviceData goroutines ever spawned
    mutexW,          \* holder of s.mutex in write mode, 0 if none
    mutexR,          \* number of holders of s.mutex in read mode
    main,            \* the bootstrap goroutine (Bootstrap -> Initialize)
    req,             \* per client: the HTTP request it has in flight
    nextId,          \* number of ids handed out by GenerateUUID so far
    calls,           \* number of HTTP requests issued so far
    updates,         \* number of updateVirtualDevice requests served so far
    deleted,         \* the ids whose deleteVirtualDevice request has answered 200
    crashed,         \* the runtime has stopped the process with a fatal error
    sampled,         \* generateReading: the device kind and raw sample of a call, and its result
    events,          \* CoreDataService.events: the ids that have an event stored
    dataMutexW,      \* holder of CoreDataService.mutex in write mode, 0 if none
    dataMutexR,      \* number of holders of CoreDataService.mutex in read mode
    dataReq,         \* per client: the Core Data request it has in flight
    uuids,           \* number of ids GenerateUUID has handed out for events
    dataCalls,       \* number of Core Data requests issued so far
    commandResponses, \* CoreCommandService.commandResponses: the ids that have a response stored
    commandMutex,    \* holder of CoreCommandService.mutex, 0 if none
    commandReq,      \* per client: the Core Command request it has in flight
    commandUuids,    \* number of ids GenerateUUID has handed out for command responses
    commandCalls,    \* number of Core Command requests issued so far
    commandOKs,      \* number of Core Command requests answered with 200 so far
    devices,         \* CoreMetadataService.devices: id -> Device, NoDevice if absent
    metaReq,         \* per client: the Core Metadata request it has in flight
    metaUuids,       \* number of ids GenerateUUID has handed out for devices
    metaClock,       \* the last value time.Now() has returned to Core Metadata
    metaCalls,       \* number of Core Metadata requests issued so far
    scheduleEvents,  \* SupportSchedulerService.scheduleEvents: id -> ScheduleEvent, NoEvent if absent
    runningJobs,     \* SupportSchedulerService.runningJobs: id -> ticker, NoTicker if absent
    tickers,         \* the tickers time.NewTicker has ever returned
    schedMutex,      \* holder of SupportSchedulerService.mutex, 0 if none
    schedReq,        \* per client: the scheduler request it has in flight
    schedUuids,      \* number of ids GenerateUUID has handed out for schedule events
    schedCalls       \* number of scheduler requests issued so far

vars == <<virtualDevices, heap, stopChannels, chans, loops, mutexW, mutexR,
          main, req, nextId, calls, updates, deleted, crashed,
          sampled, events, dataMutexW, dataMutexR, dataReq, uuids, dataCalls,
          commandResponses, commandMutex, commandReq, commandUuids, commandCalls,
          commandOKs, devices, metaReq, metaUuids, metaClock, metaCalls,
          scheduleEvents, runningJobs, tickers, schedMutex, schedReq, schedUuids,
          schedCalls>>

\* the state of the Device Virtual service
deviceVars == <<virtualDevices, heap, stopChannels, chans, loops, mutexW, mutexR,
                main, req, nextId, calls, updates, deleted, crashed>>
\* the state of the reading generator taken alone
readingVars == <<sampled>>
\* the state of the Core Data service
coreDataVars == <<events, dataMutexW, dataMutexR, dataReq, uuids, dataCalls>>
\* the state of the Core Command service
commandVars == <<commandResponses, commandMutex, commandReq, commandUuids,
                 commandCalls, commandOKs>>
\* the state of the Core Metadata service
metadataVars == <<devices, metaReq, metaUuids, metaClock, metaCalls>>
\* the state of the Support Scheduler service
schedulerVars == <<scheduleEvents, runningJobs, tickers, schedMutex, schedReq,
                   schedUuids, schedCalls>>
\* the state of the services that share nothing with Device Virtual and Core Data
serviceVars == <<commandVars, metadataVars, schedulerVars>>
\* the state the Device Virtual service does not touch
otherVars == <<readingVars, coreDataVars, serviceVars>>

\* struct VirtualDevice; Type is Protocols["type"] ("" when the key or the map
\* is missing); Description and ServiceName are written and never read
VirtualDevice(id, body, running) ==
    [Id |-> id, Name |-> body.Name, ProfileName |-> body.ProfileName,
     Type |-> body.Type, AdminState |-> body.AdminState,
     OperatingState |-> body.OperatingState,
     IsRunning |-> running, LastReading |-> body.LastReading]

\* the devices of initializeDefaultDevices
DefaultDevice(i) ==
    [Id |-> 0,
     Name |-> IF i = 1 THEN "Virtual-Temperature-Sensor-01"
              ELSE IF i = 2 THEN "Virtual-Humidity-Sensor-01"
              ELSE "Virtual-Pressure-Sensor-01",
     ProfileName |-> IF i = 1 THEN "TemperatureSensorProfile"
                     ELSE IF i = 2 THEN "HumiditySensorProfile"
                     ELSE "PressureSensorProfile",
     Type |-> IF i = 1 THEN "temperature" ELSE IF i = 2 THEN "humidity" ELSE "pressure",
     AdminState |-> "UNLOCKED", OperatingState |-> "UP",
     IsRunning |-> FALSE, LastReading |-> ZeroTime]

\* the request bodies of create and update, as json.Decode leaves them in a
\* VirtualDevice (a field the body omits keeps its zero value; Id 0 is "")
BodyFull ==
    [Id |-> 0, Name |-> "T1", ProfileName |-> "TemperatureSensorProfile",
     Type |-> "temperature", AdminState |-> "", OperatingState |-> "",
     IsRunning |-> TRUE, LastReading |-> 1]
BodyBare ==
    [Id |-> 2, Name |-> "", ProfileName |-> "", Type |-> "",
     AdminState |-> "BOGUS", OperatingState |-> "DOWN",
     IsRunning |-> FALSE, LastReading |-> ZeroTime]
Bodies == {BodyFull, BodyBare}

\* no request in flight
Idle == [op |-> "none", id |-> 0, pc |-> "idle", exists |-> FALSE, did |-> FALSE,
         ch |-> NilChan, obj |-> NoObj, objs |-> {}]

\* no reading emitted yet
NoReading == [DeviceName |-> "", ProfileName |-> "", ResourceName |-> "", Units |-> ""]

\* a goroutine running generateDeviceData(device); made is the channel that
\* was created for it right before the go statement; sig and retd record
\* which request closed that channel and whether that request has returned;
\* reading is the reading it has emitted last
Goroutine(dev, c) ==
    [dev |-> dev, pc |-> "enter", ch |-> NilChan, made |-> c,
     sig |-> "none", retd |-> FALSE, reading |-> NoReading]

\* no call of generateReading yet
NoSample == [kind |-> "none", raw |-> 0, units |-> "", value |-> 0]

\* no Core Data request in flight
DataIdle == [op |-> "none", pc |-> "idle", id |-> 0, offset |-> 0, limit |-> 0,
             total |-> 0, page |-> 0]

\* no Core Command request in flight
CommandIdle == [op |-> "none", pc |-> "idle", command |-> "", body |-> "", id |-> 0,
                status |-> 0]

\* the ids of Core Metadata devices (GenerateUUID numbers them as they are drawn)
MetaIds == 1..MaxMetaCalls
\* a key that s.devices does not hold
NoDevice == [Id |-> 0]
\* no Core Metadata request in flight
MetaIdle == [op |-> "none", pc |-> "idle", id |-> 0, body |-> NoDevice, status |-> 0]

\* the ids of schedule events (GenerateUUID numbers them as they are drawn)
SchedIds == 1..MaxSchedCalls
\* a key that s.scheduleEvents does not hold
NoEvent == [Id |-> 0]
\* a key that s.runningJobs does not hold
NoTicker == 0
\* no scheduler request in flight
SchedIdle == [op |-> "none", pc |-> "idle", id |-> 0, event |-> NoEvent,
              exists |-> FALSE, ticker |-> NoTicker, status |-> 0]

\* NewDeviceVirtualService + initializeDefaultDevices, NewCoreDataService,
\* NewCoreCommandService, NewCoreMetadataService, NewSupportSchedulerService
Init ==
    /\ commandResponses = {}
    /\ commandMutex = 0
    /\ commandReq = [c \in Clients |-> CommandIdle]
    /\ commandUuids = 0
    /\ commandCalls = 0
    /\ commandOKs = 0
    /\ devices = [i \in MetaIds |-> NoDevice]
    /\ metaReq = [c \in Clients |-> MetaIdle]
    /\ metaUuids = 0
    /\ metaClock = 1
    /\ metaCalls = 0
    /\ scheduleEvents = [i \in SchedIds |-> NoEvent]
    /\ runningJobs = [i \in SchedIds |-> NoTicker]
    /\ tickers = <<>>
    /\ schedMutex = 0
    /\ schedReq = [c \in Clients |-> SchedIdle]
    /\ schedUuids = 0
    /\ schedCalls = 0
    /\ sampled = NoSample
    /\ events = {}
    /\ dataMutexW = 0
    /\ dataMutexR = 0
    /\ dataReq = [c \in Clients |-> DataIdle]
    /\ uuids = 0
    /\ dataCalls = 0
    /\ heap = [i \in 1..NumDefaultDevices |-> VirtualDevice(i, DefaultDevice(i), FALSE)]
    /\ virtualDevices = [i \in Ids |-> IF i <= NumDefaultDevices THEN i ELSE NoObj]
    /\ stopChannels = [i \in Ids |-> NilChan]
    /\ chans = <<>>
    /\ loops = <<>>
    /\ mutexW = 0
    /\ mutexR = 0
    /\ main = [pc |-> "constructed", todo |-> {}, cur |-> 0, inits |-> 0]
    /\ req = [c \in Clients |-> Idle]
    /\ nextId = NumDefaultDevices
    /\ calls = 0
    /\ updates = 0
    /\ deleted = {}
    /\ crashed = FALSE

\* ---- helpers over the state ----
Exists(id) == virtualDevices[id] # NoObj
Running(id) == Exists(id) /\ heap[virtualDevices[id]].IsRunning
LoopIds == 1..Len(loops)
DeviceId(l) == heap[loops[l].dev].Id
Live(l) == loops[l].pc # "done"
LiveLoops(id) == {l \in LoopIds : DeviceId(l) = id /\ Live(l)}
\* an assignment to device.IsRunning that stores true whatever it is given
SetIsRunningStuck(o, b) == [heap EXCEPT ![o].IsRunning = TRUE]
\* device.IsRunning = b on the object o
SetIsRunning(o, b) == [heap EXCEPT ![o].IsRunning = b]

\* ---- main.go: NewDeviceVirtualService, AddRoutes, then Bootstrap, which calls
\* ---- Initialize before it starts the HTTP server

\* AddRoutes: the handlers are registered on the router; from here on they can
\* be invoked (by the HTTP server of Bootstrap, or directly through the router)
AddRoutes ==
    /\ ~crashed
    /\ main.pc = "constructed"
    /\ main' = [main EXCEPT !.pc = "routed"]
    /\ UNCHANGED <<virtualDevices, heap, stopChannels, chans, loops, mutexW, mutexR,
                   req, nextId, calls, updates, deleted, crashed, otherVars>>

\* Initialize -> startDataGeneration: s.mutex.RLock() and the start of the
\* range; inits counts the calls of Initialize (a call after the first finds
\* the devices as the previous call has left them)
Initialize ==
    /\ ~crashed
    /\ main.pc \in {"routed", "serving"}
    /\ main.inits < MaxInits
    /\ mutexW = 0
    /\ mutexR' = mutexR + 1
    /\ main' = [pc |-> "range", todo |-> {i \in Ids : Exists(i)}, cur |-> 0,
                inits |-> main.inits + 1]
    /\ UNCHANGED <<virtualDevices, heap, stopChannels, chans, loops, mutexW,
                   req, nextId, calls, updates, deleted, crashed, otherVars>>

\* a startDataGeneration without the test of device.IsRunning
startDataGenerationMarkAll ==
    /\ ~crashed
    /\ main.pc = "range"
    /\ \E i \in main.todo :
         /\ heap' = SetIsRunning(virtualDevices[i], TRUE)
         /\ main' = [main EXCEPT !.pc = "attach", !.cur = i]
    /\ UNCHANGED <<virtualDevices, stopChannels, chans, loops, mutexW, mutexR,
                   req, nextId, calls, updates, deleted, crashed, otherVars>>

\* startDataGeneration, one iteration of the range, up to device.IsRunning = true
\* (the iteration order of a Go map is not specified)
startDataGenerationMark ==
    /\ ~crashed
    /\ main.pc = "range"
    /\ \E i \in main.todo :
         IF ~heap[virtualDevices[i]].IsRunning
         THEN /\ heap' = SetIsRunning(virtualDevices[i], TRUE)
              /\ main' = [main EXCEPT !.pc = "attach", !.cur = i]
         ELSE /\ heap' = heap
              /\ main' = [main EXCEPT !.todo = @ \ {i}]
    /\ UNCHANGED <<virtualDevices, stopChannels, chans, loops, mutexW, mutexR,
                   req, nextId, calls, updates, deleted, crashed, otherVars>>

\* startDataGeneration, the rest of the iteration: make(chan bool) and the go statement
startDataGenerationAttach ==
    /\ ~crashed
    /\ main.pc = "attach"
    /\ chans' = Append(chans, FALSE)
    /\ stopChannels' = [stopChannels EXCEPT ![main.cur] = Len(chans) + 1]
    /\ loops' = Append(loops, Goroutine(virtualDevices[main.cur], Len(chans) + 1))
    /\ main' = [main EXCEPT !.pc = "range", !.todo = @ \ {main.cur}, !.cur = 0]
    /\ UNCHANGED <<virtualDevices, heap, mutexW, mutexR, req, nextId, calls,
                   updates, deleted, crashed, otherVars>>

\* startDataGeneration: s.mutex.RUnlock(); Initialize returns and Bootstrap
\* starts the HTTP server
startDataGenerationDone ==
    /\ ~crashed
    /\ main.pc = "range"
    /\ main.todo = {}
    /\ mutexR' = mutexR - 1
    /\ main' = [main EXCEPT !.pc = "serving"]
    /\ UNCHANGED <<virtualDevices, heap, stopChannels, chans, loops, mutexW,
                   req, nextId, calls, updates, deleted, crashed, otherVars>>

\* ---- generateDeviceData ----

\* entering the select statement evaluates its channel operands: the read of
\* s.stopChannels[device.Id], which yields a nil channel for a missing entry
generateDeviceDataSelect(l) ==
    /\ ~crashed
    /\ loops[l].pc = "enter"
    /\ loops' = [loops EXCEPT ![l].pc = "select", ![l].ch = stopChannels[DeviceId(l)]]
    /\ UNCHANGED <<virtualDevices, heap, stopChannels, chans, mutexW, mutexR,
                   main, req, nextId, calls, updates, deleted, crashed, otherVars>>

\* case <-ticker.C: the loop calls publishSensorReading
generateDeviceDataTick(l) ==
    /\ ~crashed
    /\ loops[l].pc = "select"
    /\ loops' = [loops EXCEPT ![l].pc = "tick"]
    /\ UNCHANGED <<virtualDevices, heap, stopChannels, chans, mutexW, mutexR,
                   main, req, nextId, calls, updates, deleted, crashed, otherVars>>

\* a receive from a closed channel is ready; a receive from an open channel
\* (nobody ever sends on a stop channel) or from a nil channel never is
CanReceive(c) == c # NilChan /\ chans[c]

\* case <-s.stopChannels[device.Id]: the loop returns
generateDeviceDataStop(l) ==
    /\ ~crashed
    /\ loops[l].pc = "select"
    /\ CanReceive(loops[l].ch)
    /\ loops' = [loops EXCEPT ![l].pc = "done"]
    /\ UNCHANGED <<virtualDevices, heap, stopChannels, chans, mutexW, mutexR,
                   main, req, nextId, calls, updates, deleted, crashed, otherVars>>

\* a generateReading whose switch has no default case: an unknown type leaves
\* units and resourceName empty
generateReadingNoDefault(device) ==
    [DeviceName |-> device.Name, ProfileName |-> device.ProfileName,
     ResourceName |-> IF device.Type = "temperature" THEN "Temperature"
                      ELSE IF device.Type = "humidity" THEN "Humidity"
                      ELSE IF device.Type = "pressure" THEN "Pressure"
                      ELSE "",
     Units |-> IF device.Type = "temperature" THEN "Celsius"
               ELSE IF device.Type = "humidity" THEN "Percent"
               ELSE IF device.Type = "pressure" THEN "hPa"
               ELSE ""]

\* generateReading: the switch on device.Protocols["type"] and
\* models.NewSimpleReading(device.ProfileName, device.Name, resourceName, ...)
generateReading(device) ==
    [DeviceName |-> device.Name, ProfileName |-> device.ProfileName,
     ResourceName |-> IF device.Type = "temperature" THEN "Temperature"
                      ELSE IF device.Type = "humidity" THEN "Humidity"
                      ELSE IF device.Type = "pressure" THEN "Pressure"
                      ELSE "GenericSensor",
     Units |-> IF device.Type = "temperature" THEN "Celsius"
               ELSE IF device.Type = "humidity" THEN "Percent"
               ELSE IF device.Type = "pressure" THEN "hPa"
               ELSE "Units"]

\* a publishSensorReading whose failure makes the loop return
publishSensorReadingOrReturn(l) ==
    /\ ~crashed
    /\ loops[l].pc = "tick"
    /\ heap' = heap
    /\ loops' = [loops EXCEPT ![l].pc = "done"]
    /\ UNCHANGED <<virtualDevices, stopChannels, chans, mutexW, mutexR,
                   main, req, nextId, calls, updates, deleted, crashed, otherVars>>

\* publishSensorReading: the reading is generated from the object the
\* goroutine was given and logged, then device.LastReading = time.Now() on
\* that object
publishSensorReading(l) ==
    /\ ~crashed
    /\ loops[l].pc = "tick"
    /\ heap' = [heap EXCEPT ![loops[l].dev].LastReading = 1]
    /\ loops' = [loops EXCEPT ![l].pc = "enter",
                              ![l].reading = generateReading(heap[loops[l].dev])]
    /\ UNCHANGED <<virtualDevices, stopChannels, chans, mutexW, mutexR,
                   main, req, nextId, calls, updates, deleted, crashed, otherVars>>

\* a write of s.stopChannels is under way: the next statement of a handler
\* inside its locked section, or of startDataGeneration, assigns or deletes
\* an entry
MapWriteInProgress ==
    \/ main.pc = "attach"
    \/ \E c \in Clients :
          req[c].pc = "locked" /\ req[c].op \in {"start", "stop"} /\ req[c].did

\* the read of s.stopChannels[device.Id] holds no lock; when it overlaps a
\* write of the map the Go runtime may stop the process ("fatal error:
\* concurrent map read and map write"); the other outcomes are the read
\* before or after the write (generateDeviceDataSelect)
concurrentMapReadAndMapWrite(l) ==
    /\ ~crashed
    /\ loops[l].pc = "enter"
    /\ MapWriteInProgress
    /\ crashed' = TRUE
    /\ UNCHANGED <<virtualDevices, heap, stopChannels, chans, loops, mutexW, mutexR,
                   main, req, nextId, calls, updates, deleted, otherVars>>

Loop(l) ==
    \/ generateDeviceDataSelect(l)
    \/ generateDeviceDataTick(l)
    \/ generateDeviceDataStop(l)
    \/ publishSensorReading(l)

\* ---- HTTP handlers ----
\* A request is served once Bootstrap has started the server.  Its first step
\* is the arrival together with s.mutex.Lock(): a request that waits for the
\* lock has not touched anything yet.

CanCall(c) ==
    /\ ~crashed
    /\ main.pc \in {"routed", "serving"}
    /\ req[c].pc = "idle"
    /\ calls < MaxCalls
    /\ mutexW = 0
    /\ mutexR = 0

Request(op, id, exists, did, obj) ==
    [op |-> op, id |-> id, pc |-> "locked", exists |-> exists, did |-> did,
     ch |-> NilChan, obj |-> obj, objs |-> {}]

\* close(ch) panics on a nil channel and on a closed channel; the handler has
\* no deferred Unlock, so the mutex stays locked
ClosePanics(ch) == ch = NilChan \/ chans[ch]

\* the loops whose channel is ch learn which request closed it
Signal(ch, op) ==
    [l \in LoopIds |-> IF loops[l].made = ch THEN [loops[l] EXCEPT !.sig = op]
                       ELSE loops[l]]

\* a start that forgets to look at IsRunning
ShouldStartUnchecked(exists, running) == exists

\* if exists && !device.IsRunning
ShouldStart(exists, running) == exists /\ ~running

\* startDevice: s.mutex.Lock(), the lookup and device.IsRunning = true
startDeviceLock(c, id) ==
    /\ CanCall(c)
    /\ LET o == virtualDevices[id]
           d == ShouldStart(o # NoObj, o # NoObj /\ heap[o].IsRunning)
       IN /\ d => Len(loops) < MaxLoops
          /\ heap' = IF d THEN SetIsRunning(o, TRUE) ELSE heap
          /\ req' = [req EXCEPT ![c] = Request("start", id, o # NoObj, d, o)]
    /\ mutexW' = c
    /\ calls' = calls + 1
    /\ UNCHANGED <<virtualDevices, stopChannels, chans, loops, mutexR, main,
                   nextId, updates, deleted, crashed, otherVars>>

\* startDevice: s.stopChannels[id] = make(chan bool), go s.generateDeviceData(device),
\* s.mutex.Unlock()
startDeviceUnlock(c) ==
    /\ ~crashed
    /\ req[c].op = "start"
    /\ req[c].pc = "locked"
    /\ IF req[c].did
       THEN /\ chans' = Append(chans, FALSE)
            /\ stopChannels' = [stopChannels EXCEPT ![req[c].id] = Len(chans) + 1]
            /\ loops' = Append(loops, Goroutine(req[c].obj, Len(chans) + 1))
            /\ req' = [req EXCEPT ![c].pc = "respond", ![c].ch = Len(chans) + 1]
       ELSE /\ UNCHANGED <<chans, stopChannels, loops>>
            /\ req' = [req EXCEPT ![c].pc = "respond"]
    /\ mutexW' = 0
    /\ UNCHANGED <<virtualDevices, heap, mutexR, main, nextId, calls, updates,
                   deleted, crashed, otherVars>>

\* a stop that forgets to look at IsRunning
ShouldStopUnchecked(exists, running) == exists

\* if exists && device.IsRunning
ShouldStop(exists, running) == exists /\ running

\* stopDevice: s.mutex.Lock(), the lookup and device.IsRunning = false
stopDeviceLock(c, id) ==
    /\ CanCall(c)
    /\ LET o == virtualDevices[id]
           d == ShouldStop(o # NoObj, o # NoObj /\ heap[o].IsRunning)
       IN /\ heap' = IF d THEN SetIsRunning(o, FALSE) ELSE heap
          /\ req' = [req EXCEPT ![c] = Request("stop", id, o # NoObj, d, o)]
    /\ mutexW' = c
    /\ calls' = calls + 1
    /\ UNCHANGED <<virtualDevices, stopChannels, chans, loops, mutexR, main,
                   nextId, updates, deleted, crashed, otherVars>>

\* stopDevice: close(s.stopChannels[id]), delete(s.stopChannels, id), s.mutex.Unlock()
stopDeviceUnlock(c) ==
    /\ ~crashed
    /\ req[c].op = "stop"
    /\ req[c].pc = "locked"
    /\ LET ch == stopChannels[req[c].id]
       IN IF req[c].did
          THEN IF ClosePanics(ch)
               THEN /\ req' = [req EXCEPT ![c].pc = "panic"]
                    /\ UNCHANGED <<chans, stopChannels, loops, mutexW>>
               ELSE /\ chans' = [chans EXCEPT ![ch] = TRUE]
                    /\ stopChannels' = [stopChannels EXCEPT ![req[c].id] = NilChan]
                    /\ loops' = Signal(ch, "stop")
                    /\ req' = [req EXCEPT ![c].pc = "respond", ![c].ch = ch]
                    /\ mutexW' = 0
          ELSE /\ UNCHANGED <<chans, stopChannels, loops>>
               /\ req' = [req EXCEPT ![c].pc = "respond"]
               /\ mutexW' = 0
    /\ UNCHANGED <<virtualDevices, heap, mutexR, main, nextId, calls, updates,
                   deleted, crashed, otherVars>>

\* a deleteVirtualDevice that leaves the entry of s.stopChannels in place
deleteStopChannelSkipped(id) == stopChannels

\* deleteVirtualDevice: delete(s.stopChannels, id)
deleteStopChannel(id) == [stopChannels EXCEPT ![id] = NilChan]

\* deleteVirtualDevice: s.mutex.Lock(), the lookup and, if device.IsRunning,
\* close(s.stopChannels[id]) and delete(s.stopChannels, id)
deleteVirtualDeviceLock(c, id) ==
    /\ CanCall(c)
    /\ LET o == virtualDevices[id]
           d == o # NoObj /\ heap[o].IsRunning
           ch == stopChannels[id]
       IN IF d
          THEN IF ClosePanics(ch)
               THEN /\ req' = [req EXCEPT ![c] =
                                 [Request("delete", id, TRUE, d, o) EXCEPT !.pc = "panic"]]
                    /\ UNCHANGED <<chans, stopChannels, loops>>
               ELSE /\ chans' = [chans EXCEPT ![ch] = TRUE]
                    /\ stopChannels' = deleteStopChannel(id)
                    /\ loops' = Signal(ch, "delete")
                    /\ req' = [req EXCEPT ![c] =
                                 [Request("delete", id, TRUE, d, o) EXCEPT !.ch = ch]]
          ELSE /\ UNCHANGED <<chans, stopChannels, loops>>
               /\ req' = [req EXCEPT ![c] = Request("delete", id, o # NoObj, d, o)]
    /\ mutexW' = c
    /\ calls' = calls + 1
    /\ UNCHANGED <<virtualDevices, heap, mutexR, main, nextId, updates, deleted, crashed, otherVars>>

\* deleteVirtualDevice: delete(s.virtualDevices, id), s.mutex.Unlock()
deleteVirtualDeviceUnlock(c) ==
    /\ ~crashed
    /\ req[c].op = "delete"
    /\ req[c].pc = "locked"
    /\ virtualDevices' = IF req[c].exists
                         THEN [virtualDevices EXCEPT ![req[c].id] = NoObj]
                         ELSE virtualDevices
    /\ req' = [req EXCEPT ![c].pc = "respond"]
    /\ mutexW' = 0
    /\ UNCHANGED <<heap, stopChannels, chans, loops, mutexR, main, nextId,
                   calls, updates, deleted, crashed, otherVars>>

\* an update that stores the decoded body with the IsRunning it carries
updatedDeviceAsSent(id, body, existingDevice) ==
    VirtualDevice(id, body, body.IsRunning)

\* updateVirtualDevice: the decoded body with updatedDevice.Id = id and
\* updatedDevice.IsRunning = existingDevice.IsRunning
updatedDevice(id, body, existingDevice) ==
    VirtualDevice(id, body, existingDevice.IsRunning)

\* updateVirtualDevice: the decoded body, s.mutex.Lock(), the lookup and the
\* two assignments to updatedDevice
updateVirtualDeviceLock(c, id, body) ==
    /\ CanCall(c)
    /\ updates < MaxUpdates
    /\ LET o == virtualDevices[id]
       IN IF o # NoObj
          THEN /\ heap' = Append(heap, updatedDevice(id, body, heap[o]))
               /\ req' = [req EXCEPT ![c] =
                            Request("update", id, TRUE, TRUE, Len(heap) + 1)]
          ELSE /\ heap' = heap
               /\ req' = [req EXCEPT ![c] = Request("update", id, FALSE, FALSE, NoObj)]
    /\ mutexW' = c
    /\ calls' = calls + 1
    /\ updates' = updates + 1
    /\ UNCHANGED <<virtualDevices, stopChannels, chans, loops, mutexR, main, nextId,
                   deleted, crashed, otherVars>>

\* updateVirtualDevice: s.virtualDevices[id] = &updatedDevice, s.mutex.Unlock()
updateVirtualDeviceUnlock(c) ==
    /\ ~crashed
    /\ req[c].op = "update"
    /\ req[c].pc = "locked"
    /\ virtualDevices' = IF req[c].exists
                         THEN [virtualDevices EXCEPT ![req[c].id] = req[c].obj]
                         ELSE virtualDevices
    /\ req' = [req EXCEPT ![c].pc = "respond"]
    /\ mutexW' = 0
    /\ UNCHANGED <<heap, stopChannels, chans, loops, mutexR, main, nextId,
                   calls, updates, deleted, crashed, otherVars>>

\* createVirtualDevice: AdminState and OperatingState default to Unlocked and Up
\* when the body leaves them empty
WithDefaults(body) ==
    [body EXCEPT !.AdminState = IF @ = "" THEN "UNLOCKED" ELSE @,
                 !.OperatingState = IF @ = "" THEN "UP" ELSE @]

\* a create that stores the decoded body with the IsRunning it carries
createdDeviceAsSent(id, body) ==
    VirtualDevice(id, WithDefaults(body), body.IsRunning)

\* createVirtualDevice: the decoded body with device.Id = the new id,
\* device.IsRunning = false and the defaults
createdDevice(id, body) ==
    VirtualDevice(id, WithDefaults(body), FALSE)

\* an id generator that hands out an id again once its device is deleted
GenerateUUIDReusing ==
    IF deleted # {} THEN CHOOSE id \in deleted : TRUE ELSE nextId + 1

\* models.GenerateUUID(): 122 bits from crypto/rand; two calls are taken to
\* return different ids, so the ids are numbered in the order they are drawn
GenerateUUID == nextId + 1

\* createVirtualDevice: the decoded body, device.Id = models.GenerateUUID(),
\* device.IsRunning = false, the defaults, s.mutex.Lock(),
\* s.virtualDevices[device.Id] = &device
createVirtualDeviceLock(c, body) ==
    /\ CanCall(c)
    /\ nextId < MaxIds
    /\ nextId' = nextId + 1
    /\ heap' = Append(heap, createdDevice(GenerateUUID, body))
    /\ virtualDevices' = [virtualDevices EXCEPT ![GenerateUUID] = Len(heap) + 1]
    /\ req' = [req EXCEPT ![c] = Request("create", GenerateUUID, TRUE, TRUE, Len(heap) + 1)]
    /\ mutexW' = c
    /\ calls' = calls + 1
    /\ UNCHANGED <<stopChannels, chans, loops, mutexR, main, updates, deleted, crashed, otherVars>>

\* createVirtualDevice: s.mutex.Unlock()
createVirtualDeviceUnlock(c) ==
    /\ ~crashed
    /\ req[c].op = "create"
    /\ req[c].pc = "locked"
    /\ req' = [req EXCEPT ![c].pc = "respond"]
    /\ mutexW' = 0
    /\ UNCHANGED <<virtualDevices, heap, stopChannels, chans, loops, mutexR,
                   main, nextId, calls, updates, deleted, crashed, otherVars>>

\* getVirtualDevice: s.mutex.RLock() and the lookup
getVirtualDeviceRLock(c, id) ==
    /\ ~crashed
    /\ main.pc \in {"routed", "serving"}
    /\ req[c].pc = "idle"
    /\ calls < MaxCalls
    /\ mutexW = 0
    /\ mutexR' = mutexR + 1
    /\ req' = [req EXCEPT ![c] = Request("get", id, Exists(id), FALSE, virtualDevices[id])]
    /\ calls' = calls + 1
    /\ UNCHANGED <<virtualDevices, heap, stopChannels, chans, loops, mutexW, main,
                   nextId, updates, deleted, crashed, otherVars>>

\* getVirtualDevice: s.mutex.RUnlock()
getVirtualDeviceRUnlock(c) ==
    /\ ~crashed
    /\ req[c].op = "get"
    /\ req[c].pc = "locked"
    /\ mutexR' = mutexR - 1
    /\ req' = [req EXCEPT ![c].pc = "respond"]
    /\ UNCHANGED <<virtualDevices, heap, stopChannels, chans, loops, mutexW, main,
                   nextId, calls, updates, deleted, crashed, otherVars>>

\* getAllVirtualDevices: s.mutex.RLock() and the copy of the pointers of
\* s.virtualDevices into the slice devices
getAllVirtualDevicesRLock(c) ==
    /\ ~crashed
    /\ main.pc \in {"routed", "serving"}
    /\ req[c].pc = "idle"
    /\ calls < MaxCalls
    /\ mutexW = 0
    /\ mutexR' = mutexR + 1
    /\ req' = [req EXCEPT ![c] =
                 [Request("list", 0, TRUE, FALSE, NoObj)
                    EXCEPT !.objs = {virtualDevices[id] : id \in Ids} \ {NoObj}]]
    /\ calls' = calls + 1
    /\ UNCHANGED <<virtualDevices, heap, stopChannels, chans, loops, mutexW, main,
                   nextId, updates, deleted, crashed, otherVars>>

\* getAllVirtualDevices: s.mutex.RUnlock()
getAllVirtualDevicesRUnlock(c) ==
    /\ ~crashed
    /\ req[c].op = "list"
    /\ req[c].pc = "locked"
    /\ mutexR' = mutexR - 1
    /\ req' = [req EXCEPT ![c].pc = "respond"]
    /\ UNCHANGED <<virtualDevices, heap, stopChannels, chans, loops, mutexW, main,
                   nextId, calls, updates, deleted, crashed, otherVars>>

\* a handler that reports a start or stop that had nothing to do as an error
ResponseStatusStrict(r) ==
    IF r.op = "create" THEN StatusCreated
    ELSE IF ~r.exists THEN StatusNotFound
    ELSE IF r.op \in {"start", "stop"} /\ ~r.did THEN 409
    ELSE StatusOK

\* a handler that answers 200 whether or not it found the device
ResponseStatusFound(r) ==
    IF r.op = "create" THEN StatusCreated ELSE StatusOK

\* the status of the response a handler writes after its locked section
ResponseStatus(r) ==
    IF r.op = "create" THEN StatusCreated
    ELSE IF r.exists THEN StatusOK ELSE StatusNotFound

\* the handler writes its response and returns; the loops whose channel this
\* request closed are from now on loops of a request that has returned
Respond(c) ==
    /\ ~crashed
    /\ req[c].pc = "respond"
    /\ req' = [req EXCEPT ![c] = Idle]
    /\ loops' = [l \in LoopIds |->
                   IF req[c].op \in {"stop", "delete"} /\ req[c].ch # NilChan
                      /\ loops[l].made = req[c].ch
                   THEN [loops[l] EXCEPT !.retd = TRUE]
                   ELSE loops[l]]
    /\ deleted' = IF req[c].op = "delete" /\ ResponseStatus(req[c]) = StatusOK
                  THEN deleted \cup {req[c].id}
                  ELSE deleted
    /\ UNCHANGED <<virtualDevices, heap, stopChannels, chans, mutexW, mutexR,
                   main, nextId, calls, updates, crashed, otherVars>>

\* the requests of the HTTP clients
Handlers ==
    \/ \E c \in Clients, id \in Ids : startDeviceLock(c, id)
    \/ \E c \in Clients : startDeviceUnlock(c)
    \/ \E c \in Clients, id \in Ids : stopDeviceLock(c, id)
    \/ \E c \in Clients : stopDeviceUnlock(c)
    \/ \E c \in Clients, id \in Ids : deleteVirtualDeviceLock(c, id)
    \/ \E c \in Clients : deleteVirtualDeviceUnlock(c)
    \/ \E c \in Clients, id \in Ids, body \in Bodies : updateVirtualDeviceLock(c, id, body)
    \/ \E c \in Clients : updateVirtualDeviceUnlock(c)
    \/ \E c \in Clients, body \in Bodies : createVirtualDeviceLock(c, body)
    \/ \E c \in Clients : createVirtualDeviceUnlock(c)
    \/ \E c \in Clients, id \in Ids : getVirtualDeviceRLock(c, id)
    \/ \E c \in Clients : getVirtualDeviceRUnlock(c)
    \/ \E c \in Clients : getAllVirtualDevicesRLock(c)
    \/ \E c \in Clients : getAllVirtualDevicesRUnlock(c)
    \/ \E c \in Clients : Respond(c)

\* the bootstrap goroutine
Boot ==
    \/ Initialize
    \/ startDataGenerationMark
    \/ startDataGenerationAttach
    \/ startDataGenerationDone

\* Spec: the constructed service with its routes registered, driven by
\* concurrent HTTP requests (Initialize is not called, as when the handlers
\* are exercised through the router alone)
Next ==
    \/ AddRoutes
    \/ \E l \in LoopIds : generateDeviceDataSelect(l)
    \/ \E l \in LoopIds : generateDeviceDataTick(l)
    \/ \E l \in LoopIds : generateDeviceDataStop(l)
    \/ \E l \in LoopIds : publishSensorReading(l)
    \/ \E l \in LoopIds : concurrentMapReadAndMapWrite(l)
    \/ Handlers

Spec == Init /\ [][Next]_vars

\* BootSpec: main.go up to the start of the HTTP server: Initialize runs
\* startDataGeneration while the loops it has already spawned are running
BootNext ==
    \/ AddRoutes
    \/ Initialize
    \/ startDataGenerationMark
    \/ startDataGenerationAttach
    \/ startDataGenerationDone
    \/ \E l \in LoopIds : Loop(l)
    \/ \E l \in LoopIds : concurrentMapReadAndMapWrite(l)

BootSpec == Init /\ [][BootNext]_vars

TypeOK ==
    /\ Len(heap) <= MaxObjs
    /\ Len(loops) <= MaxLoops
    /\ Len(chans) = Len(loops)
    /\ mutexW \in 0..NumClients
    /\ mutexR \in 0..(NumClients + 1)
    /\ deleted \subseteq Ids
    /\ crashed \in BOOLEAN

\* SeqSpec: one sequential client that calls start(id), stop(id), start(id), ...
\* on one device, each call returning before the next is issued, while the
\* loops run; calls counts the requests issued, so after 2n calls the
\* sequence start; stop has been executed n times
SeqDevice(id) == \A l \in LoopIds : DeviceId(l) = id

SeqNext ==
    \/ AddRoutes
    \/ \E l \in LoopIds : generateDeviceDataSelect(l)
    \/ \E l \in LoopIds : generateDeviceDataTick(l)
    \/ \E l \in LoopIds : generateDeviceDataStop(l)
    \/ \E l \in LoopIds : publishSensorReading(l)
    \/ \E l \in LoopIds : concurrentMapReadAndMapWrite(l)
    \/ \E id \in Ids : calls % 2 = 0 /\ SeqDevice(id) /\ startDeviceLock(1, id)
    \/ startDeviceUnlock(1)
    \/ \E id \in Ids : calls % 2 = 1 /\ Running(id) /\ stopDeviceLock(1, id)
    \/ stopDeviceUnlock(1)
    \/ Respond(1)

SeqSpec == Init /\ [][SeqNext]_vars

\* FairSpec: Spec under the scheduling the Go runtime provides: a goroutine
\* that can take a step eventually takes one, a select whose stop case is
\* ready again and again eventually takes it, and a handler that has been
\* called runs to its response
HandlerProgress(c) ==
    \/ startDeviceUnlock(c)
    \/ stopDeviceUnlock(c)
    \/ deleteVirtualDeviceUnlock(c)
    \/ updateVirtualDeviceUnlock(c)
    \/ createVirtualDeviceUnlock(c)
    \/ getVirtualDeviceRUnlock(c)
    \/ getAllVirtualDevicesRUnlock(c)
    \/ Respond(c)

Fairness ==
    /\ \A l \in 1..MaxLoops : WF_vars(l \in LoopIds /\ Loop(l))
    /\ \A l \in 1..MaxLoops : SF_vars(l \in LoopIds /\ generateDeviceDataStop(l))
    /\ \A c \in Clients : WF_vars(HandlerProgress(c))

FairSpec == Spec /\ Fairness

\* ---- generateReading taken alone ----

\* the values of device.Protocols["type"]: "" for a missing key or a nil map
Kinds == {"temperature", "humidity", "pressure", "", "voltage"}
\* rand.Float64() gives raw / RawScale, a number in [0, 1)
RawSamples == 0..(RawScale - 1)

\* the constant and the factor of the sample in each case of the switch
Low(kind) == IF kind = "temperature" THEN 20
             ELSE IF kind = "humidity" THEN 30
             ELSE IF kind = "pressure" THEN 1013
             ELSE 0
Span(kind) == IF kind = "temperature" THEN 15
              ELSE IF kind = "humidity" THEN 40
              ELSE IF kind = "pressure" THEN 20
              ELSE 100

\* fmt.Sprintf("%.2f", num / den), as the number of hundredths the string
\* denotes: the nearest hundredth; exactly halfway the float64 that stands for
\* num / den lies on either side, so both neighbours can be printed
Sprintf2(num, den) ==
    LET q == (100 * num) \div den
        r == (100 * num) % den
    IN IF 2 * r < den THEN {q}
       ELSE IF 2 * r > den THEN {q + 1}
       ELSE {q, q + 1}

\* generateReading: value = fmt.Sprintf("%.2f", low + rand.Float64()*span)
readingValue(kind, raw) == Sprintf2(Low(kind) * RawScale + raw * Span(kind), RawScale)

\* a device record whose Protocols["type"] is kind
DeviceOfKind(kind) == VirtualDevice(1, [BodyBare EXCEPT !.Type = kind], FALSE)

\* one call of generateReading on a device of some kind with some raw sample
generateReadingCall(kind, raw) ==
    /\ sampled = NoSample
    /\ \E v \in readingValue(kind, raw) :
          sampled' = [kind |-> kind, raw |-> raw,
                      units |-> generateReading(DeviceOfKind(kind)).Units,
                      value |-> v]
    /\ UNCHANGED <<deviceVars, coreDataVars, serviceVars>>

ReadingNext ==
    /\ sampled = NoSample
    /\ \E kind \in Kinds, raw \in RawSamples : generateReadingCall(kind, raw)

ReadingSpec == Init /\ [][ReadingNext]_vars

\* ---- Core Data: addEvent and getAllEvents ----

\* the id an addEvent body carries: 0 for none (""), or the id GivenId
GivenId == 0 - 1
BodyEventIds == {0, GivenId}

\* a query parameter: absent, not a number, or a decimal integer
OffsetValues == {<<"absent", 0>>, <<"text", 0>>} \cup
                {<<"int", n>> : n \in {0 - 1, 0, 1}}
LimitValues == {<<"absent", 0>>, <<"text", 0>>} \cup
               {<<"int", n>> : n \in {0 - 1, 0, 1, 1001}}

\* an id generator that numbers the event after the events stored so far,
\* read before the lock is taken
GenerateEventUUIDByCount == Cardinality(events) + 1

\* models.GenerateUUID() in addEvent: two calls are taken to return different
\* ids, so the ids are numbered in the order they are drawn
GenerateEventUUID == uuids + 1

\* addEvent: the decoded body and if event.Id == "" { event.Id = GenerateUUID() }
addEventDecode(c, bodyId) ==
    /\ dataReq[c].pc = "idle"
    /\ dataCalls < MaxDataCalls
    /\ dataCalls' = dataCalls + 1
    /\ uuids' = IF bodyId = 0 THEN uuids + 1 ELSE uuids
    /\ dataReq' = [dataReq EXCEPT ![c] =
                     [DataIdle EXCEPT !.op = "addEvent", !.pc = "decoded",
                                      !.id = IF bodyId = 0 THEN GenerateEventUUID
                                             ELSE bodyId]]
    /\ UNCHANGED <<deviceVars, readingVars, serviceVars, events, dataMutexW, dataMutexR>>

\* addEvent: s.mutex.Lock() and s.events[event.Id] = event
addEventLock(c) ==
    /\ dataReq[c].op = "addEvent"
    /\ dataReq[c].pc = "decoded"
    /\ dataMutexW = 0
    /\ dataMutexR = 0
    /\ dataMutexW' = c
    /\ events' = events \cup {dataReq[c].id}
    /\ dataReq' = [dataReq EXCEPT ![c].pc = "locked"]
    /\ UNCHANGED <<deviceVars, readingVars, serviceVars, dataMutexR, uuids, dataCalls>>

\* addEvent: s.mutex.Unlock()
addEventUnlock(c) ==
    /\ dataReq[c].op = "addEvent"
    /\ dataReq[c].pc = "locked"
    /\ dataMutexW' = 0
    /\ dataReq' = [dataReq EXCEPT ![c].pc = "respond"]
    /\ UNCHANGED <<deviceVars, readingVars, serviceVars, events, dataMutexR, uuids, dataCalls>>

\* strconv.Atoi of a query parameter: the number and whether it parsed
Atoi(q) == [val |-> q[2], ok |-> q[1] = "int"]

\* getAllEvents: offset := 0, overwritten when the parameter parses
ParseOffset(q) == IF q[1] # "absent" /\ Atoi(q).ok THEN Atoi(q).val ELSE 0

\* getAllEvents: limit := 20, overwritten when the parameter parses and is <= 1000
ParseLimit(q) ==
    IF q[1] # "absent" /\ Atoi(q).ok /\ Atoi(q).val <= 1000 THEN Atoi(q).val ELSE 20

\* getAllEvents: the query parameters, s.mutex.RLock() and the copy of s.events
getAllEventsRLock(c, offsetStr, limitStr) ==
    /\ dataReq[c].pc = "idle"
    /\ dataCalls < MaxDataCalls
    /\ dataCalls' = dataCalls + 1
    /\ dataMutexW = 0
    /\ dataMutexR' = dataMutexR + 1
    /\ dataReq' = [dataReq EXCEPT ![c] =
                     [DataIdle EXCEPT !.op = "getAllEvents", !.pc = "locked",
                                      !.offset = ParseOffset(offsetStr),
                                      !.limit = ParseLimit(limitStr),
                                      !.total = Cardinality(events)]]
    /\ UNCHANGED <<deviceVars, readingVars, serviceVars, events, dataMutexW, uuids>>

\* getAllEvents: s.mutex.RUnlock(), then start and end of the page and
\* events[start:end], which panics when start < 0 or end < start
getAllEventsRUnlock(c) ==
    /\ dataReq[c].op = "getAllEvents"
    /\ dataReq[c].pc = "locked"
    /\ dataMutexR' = dataMutexR - 1
    /\ LET len == dataReq[c].total
           start == IF dataReq[c].offset >= len THEN len ELSE dataReq[c].offset
           end == IF start + dataReq[c].limit > len THEN len
                  ELSE start + dataReq[c].limit
       IN dataReq' = [dataReq EXCEPT
                        ![c].pc = IF start < 0 \/ end < start THEN "panic" ELSE "respond",
                        ![c].page = IF start < 0 \/ end < start THEN 0 ELSE end - start]
    /\ UNCHANGED <<deviceVars, readingVars, serviceVars, events, dataMutexW, uuids, dataCalls>>

\* the handler writes its response and returns
dataRespond(c) ==
    /\ dataReq[c].pc = "respond"
    /\ dataReq' = [dataReq EXCEPT ![c] = DataIdle]
    /\ UNCHANGED <<deviceVars, readingVars, serviceVars, events, dataMutexW, dataMutexR, uuids,
                   dataCalls>>

CoreDataNext ==
    \/ \E c \in Clients, bodyId \in BodyEventIds : addEventDecode(c, bodyId)
    \/ \E c \in Clients : addEventLock(c)
    \/ \E c \in Clients : addEventUnlock(c)
    \/ \E c \in Clients, o \in OffsetValues, l \in LimitValues : getAllEventsRLock(c, o, l)
    \/ \E c \in Clients : getAllEventsRUnlock(c)
    \/ \E c \in Clients : dataRespond(c)

CoreDataSpec == Init /\ [][CoreDataNext]_vars

\* ---- Core Command ----

\* the {command} of the route: the three commands of getDeviceCommands and one
\* that the service does not know
CommandNames == {"Temperature", "Humidity", "SetPoint", "Pressure"}

\* the body of a PUT: a JSON object, the JSON null, a JSON array, and text
\* that is not JSON
CommandBodies == {"object", "null", "array", "malformed"}

\* json.NewDecoder(r.Body).Decode(&commandRequest) into a
\* map[string]interface{}: an object fills the map, null leaves it nil, and
\* anything else is an error
Decodes(body) == body \in {"object", "null"}

\* a switch whose default case falls through to the store
SupportsGetAny(commandName) == TRUE

\* issueGetCommand: the cases of switch commandName that set commandResult
SupportsGet(commandName) == commandName \in {"Temperature", "Humidity", "SetPoint"}

\* models.GenerateUUID() in issueGetCommand and issueSetCommand: two calls
\* are taken to return different ids
GenerateCommandUUID == commandUuids + 1

\* issueGetCommand up to the store: responseId is drawn before the switch,
\* whose default case answers 404 and returns
issueGetCommand(c, commandName) ==
    /\ commandReq[c].pc = "idle"
    /\ commandCalls < MaxCommandCalls
    /\ commandCalls' = commandCalls + 1
    /\ commandUuids' = commandUuids + 1
    /\ commandReq' = [commandReq EXCEPT ![c] =
          IF SupportsGet(commandName)
          THEN [CommandIdle EXCEPT !.op = "get", !.pc = "store",
                                   !.command = commandName, !.id = GenerateCommandUUID]
          ELSE [CommandIdle EXCEPT !.op = "get", !.pc = "respond",
                                   !.command = commandName, !.status = StatusNotFound]]
    /\ UNCHANGED <<deviceVars, readingVars, coreDataVars, metadataVars, schedulerVars,
                   commandResponses, commandMutex, commandOKs>>

\* issueSetCommand up to the store: the body is decoded first (400), then the
\* command is compared with "SetPoint" (405), then responseId is drawn
issueSetCommand(c, commandName, body) ==
    /\ commandReq[c].pc = "idle"
    /\ commandCalls < MaxCommandCalls
    /\ commandCalls' = commandCalls + 1
    /\ LET r == [CommandIdle EXCEPT !.op = "set", !.command = commandName, !.body = body]
       IN IF ~Decodes(body)
          THEN /\ commandReq' = [commandReq EXCEPT ![c] =
                     [r EXCEPT !.pc = "respond", !.status = StatusBadRequest]]
               /\ commandUuids' = commandUuids
          ELSE IF commandName # "SetPoint"
          THEN /\ commandReq' = [commandReq EXCEPT ![c] =
                     [r EXCEPT !.pc = "respond", !.status = StatusMethodNotAllowed]]
               /\ commandUuids' = commandUuids
          ELSE /\ commandReq' = [commandReq EXCEPT ![c] =
                     [r EXCEPT !.pc = "store", !.id = GenerateCommandUUID]]
               /\ commandUuids' = commandUuids + 1
    /\ UNCHANGED <<deviceVars, readingVars, coreDataVars, metadataVars, schedulerVars,
                   commandResponses, commandMutex, commandOKs>>

\* "Store command response": s.mutex.Lock()
storeCommandResponseLock(c) ==
    /\ commandReq[c].pc = "store"
    /\ commandMutex = 0
    /\ commandMutex' = c
    /\ commandReq' = [commandReq EXCEPT ![c].pc = "locked"]
    /\ UNCHANGED <<deviceVars, readingVars, coreDataVars, metadataVars, schedulerVars,
                   commandResponses, commandUuids, commandCalls, commandOKs>>

\* s.commandResponses[responseId] = cmdResponse and s.mutex.Unlock()
storeCommandResponseUnlock(c) ==
    /\ commandReq[c].pc = "locked"
    /\ commandResponses' = commandResponses \cup {commandReq[c].id}
    /\ commandMutex' = 0
    /\ commandReq' = [commandReq EXCEPT ![c].pc = "respond", ![c].status = StatusOK]
    /\ UNCHANGED <<deviceVars, readingVars, coreDataVars, metadataVars, schedulerVars,
                   commandUuids, commandCalls, commandOKs>>

\* the handler writes its response and returns
commandRespond(c) ==
    /\ commandReq[c].pc = "respond"
    /\ commandOKs' = IF commandReq[c].status = StatusOK THEN commandOKs + 1
                     ELSE commandOKs
    /\ commandReq' = [commandReq EXCEPT ![c] = CommandIdle]
    /\ UNCHANGED <<deviceVars, readingVars, coreDataVars, metadataVars, schedulerVars,
                   commandResponses, commandMutex, commandUuids, commandCalls>>

CoreCommandNext ==
    \/ \E c \in Clients, n \in CommandNames : issueGetCommand(c, n)
    \/ \E c \in Clients, n \in CommandNames, b \in CommandBodies : issueSetCommand(c, n, b)
    \/ \E c \in Clients : storeCommandResponseLock(c)
    \/ \E c \in Clients : storeCommandResponseUnlock(c)
    \/ \E c \in Clients : commandRespond(c)

CoreCommandSpec == Init /\ [][CoreCommandNext]_vars

\* ---- Core Metadata ----
\* Every access of s.devices is inside a section of s.mutex (Lock in
\* addDevice, updateDevice and deleteDevice, RLock in the getters), and no
\* section blocks, so each locked section is one step.

\* models.Device as json.Decode leaves it: a field the body omits keeps its
\* zero value (Id 0 is ""); ProfileName, ServiceName, Labels, Location and
\* Protocols are carried like Name and Description.  The first body is the one
\* of TestCoreMetadataService_UpdateDevice, the second carries an id and
\* timestamps of its own
MetaBodyPlain ==
    [Id |-> 0, Name |-> "UpdatedDevice", Description |-> "Updated description",
     AdminState |-> "LOCKED", OperatingState |-> "", Created |-> 0, Modified |-> 0]
MetaBodyStamped ==
    [Id |-> 2, Name |-> "OriginalDevice", Description |-> "",
     AdminState |-> "", OperatingState |-> "DOWN",
     Created |-> 0 - 1, Modified |-> 0 - 1]
\* a body that json.Decode rejects
MetaBodyMalformed == [Id |-> 0 - 1]
MetaBodies == {MetaBodyPlain, MetaBodyStamped, MetaBodyMalformed}

\* time.Now().UnixNano() / int64(time.Millisecond): the clock does not go
\* back, and two readings may fall in the same millisecond
Now == {t \in {metaClock, metaClock + 1} : t <= MaxClock}

\* models.GenerateUUID() in addDevice: two calls are taken to return different ids
GenerateDeviceUUID == metaUuids + 1

\* addDevice: the id, the timestamps and the defaults
addedDevice(id, body, now) ==
    [body EXCEPT !.Id = id, !.Created = now, !.Modified = now,
                 !.AdminState = IF @ = "" THEN "UNLOCKED" ELSE @,
                 !.OperatingState = IF @ = "" THEN "UP" ELSE @]

\* addDevice up to the store
addDeviceDecode(c, body, now) ==
    /\ metaReq[c].pc = "idle"
    /\ metaCalls < MaxMetaCalls
    /\ metaCalls' = metaCalls + 1
    /\ IF body = MetaBodyMalformed
       THEN /\ metaReq' = [metaReq EXCEPT ![c] =
                  [MetaIdle EXCEPT !.op = "add", !.pc = "respond",
                                   !.status = StatusBadRequest]]
            /\ UNCHANGED <<metaUuids, metaClock>>
       ELSE /\ metaReq' = [metaReq EXCEPT ![c] =
                  [MetaIdle EXCEPT !.op = "add", !.pc = "decoded",
                                   !.id = GenerateDeviceUUID,
                                   !.body = addedDevice(GenerateDeviceUUID, body, now)]]
            /\ metaUuids' = metaUuids + 1
            /\ metaClock' = now
    /\ UNCHANGED <<deviceVars, readingVars, coreDataVars, commandVars, schedulerVars,
                   devices>>

\* addDevice: s.mutex.Lock(), s.devices[device.Id] = device, s.mutex.Unlock()
addDeviceStore(c) ==
    /\ metaReq[c].op = "add"
    /\ metaReq[c].pc = "decoded"
    /\ devices' = [devices EXCEPT ![metaReq[c].id] = metaReq[c].body]
    /\ metaReq' = [metaReq EXCEPT ![c].pc = "respond", ![c].status = StatusCreated]
    /\ UNCHANGED <<deviceVars, readingVars, coreDataVars, commandVars, schedulerVars,
                   metaUuids, metaClock, metaCalls>>

\* updateDevice up to the lock: the route's id and the decoded body
updateDeviceDecode(c, id, body) ==
    /\ metaReq[c].pc = "idle"
    /\ metaCalls < MaxMetaCalls
    /\ metaCalls' = metaCalls + 1
    /\ metaReq' = [metaReq EXCEPT ![c] =
          IF body = MetaBodyMalformed
          THEN [MetaIdle EXCEPT !.op = "update", !.pc = "respond", !.id = id,
                                !.status = StatusBadRequest]
          ELSE [MetaIdle EXCEPT !.op = "update", !.pc = "decoded", !.id = id,
                                !.body = body]]
    /\ UNCHANGED <<deviceVars, readingVars, coreDataVars, commandVars, schedulerVars,
                   devices, metaUuids, metaClock>>

\* an update that stores the body's own Created
updatedMetadataDeviceAsSent(id, body, existingDevice, now) ==
    [body EXCEPT !.Id = id, !.Modified = now]

\* updateDevice: updatedDevice.Id = id, .Created = existingDevice.Created,
\* .Modified = time.Now()
updatedMetadataDevice(id, body, existingDevice, now) ==
    [body EXCEPT !.Id = id, !.Created = existingDevice.Created, !.Modified = now]

\* updateDevice: s.mutex.Lock(), the lookup, the store if the id exists,
\* s.mutex.Unlock()
updateDeviceStore(c, now) ==
    /\ metaReq[c].op = "update"
    /\ metaReq[c].pc = "decoded"
    /\ LET id == metaReq[c].id
           exists == devices[id] # NoDevice
       IN IF exists
          THEN /\ devices' = [devices EXCEPT ![id] =
                     updatedMetadataDevice(id, metaReq[c].body, devices[id], now)]
               /\ metaClock' = now
               /\ metaReq' = [metaReq EXCEPT ![c].pc = "respond", ![c].status = StatusOK]
          ELSE /\ UNCHANGED <<devices, metaClock>>
               /\ metaReq' = [metaReq EXCEPT ![c].pc = "respond",
                                             ![c].status = StatusNotFound]
    /\ UNCHANGED <<deviceVars, readingVars, coreDataVars, commandVars, schedulerVars,
                   metaUuids, metaCalls>>

\* deleteDevice: s.mutex.Lock(), the lookup, delete(s.devices, id) if the id
\* exists, s.mutex.Unlock()
deleteDevice(c, id) ==
    /\ metaReq[c].pc = "idle"
    /\ metaCalls < MaxMetaCalls
    /\ metaCalls' = metaCalls + 1
    /\ devices' = [devices EXCEPT ![id] = NoDevice]
    /\ metaReq' = [metaReq EXCEPT ![c] =
          [MetaIdle EXCEPT !.op = "delete", !.pc = "respond", !.id = id,
                           !.status = IF devices[id] # NoDevice THEN StatusOK
                                      ELSE StatusNotFound]]
    /\ UNCHANGED <<deviceVars, readingVars, coreDataVars, commandVars, schedulerVars,
                   metaUuids, metaClock>>

\* the handler writes its response and returns
metaRespond(c) ==
    /\ metaReq[c].pc = "respond"
    /\ metaReq' = [metaReq EXCEPT ![c] = MetaIdle]
    /\ UNCHANGED <<deviceVars, readingVars, coreDataVars, commandVars, schedulerVars,
                   devices, metaUuids, metaClock, metaCalls>>

CoreMetadataNext ==
    \/ \E c \in Clients, b \in MetaBodies, t \in Now : addDeviceDecode(c, b, t)
    \/ \E c \in Clients : addDeviceStore(c)
    \/ \E c \in Clients, id \in MetaIds, b \in MetaBodies : updateDeviceDecode(c, id, b)
    \/ \E c \in Clients, t \in Now : updateDeviceStore(c, t)
    \/ \E c \in Clients, id \in MetaIds : deleteDevice(c, id)
    \/ \E c \in Clients : metaRespond(c)

CoreMetadataSpec == Init /\ [][CoreMetadataNext]_vars

\* ---- Support Scheduler ----
\* s.mutex is not reentrant: Lock() blocks while any goroutine, the caller
\* included, holds it.  A section that locks, touches the maps and unlocks
\* without calling out is one step, taken when the mutex is free.

\* struct ScheduleEvent as json.Decode leaves it: a field the body omits keeps
\* its zero value; Name, Schedule, Addressable, Parameters and Service are
\* carried along and decide nothing but the ticker's interval
ScheduleEvent(adminState) == [Id |-> 0, AdminState |-> adminState]
\* a body that json.Decode rejects
SchedBodyMalformed == [Id |-> 0 - 1]
SchedBodies == {ScheduleEvent(""), ScheduleEvent("UNLOCKED"), ScheduleEvent("LOCKED"),
                SchedBodyMalformed}

\* time.NewTicker: the ticker of a job of event id; running says that the
\* goroutine ranging over ticker.C has been started, executed that it has
\* executed a job
Ticker(id) == [id |-> id, stopped |-> FALSE, running |-> FALSE, executed |-> FALSE]
TickerIds == 1..Len(tickers)

\* models.GenerateUUID() in addScheduleEvent: two calls are taken to return
\* different ids
GenerateScheduleUUID == schedUuids + 1

\* addScheduleEvent up to the lock: the id and the default AdminState
addScheduleEventDecode(c, body) ==
    /\ schedReq[c].pc = "idle"
    /\ schedCalls < MaxSchedCalls
    /\ schedCalls' = schedCalls + 1
    /\ IF body = SchedBodyMalformed
       THEN /\ schedReq' = [schedReq EXCEPT ![c] =
                  [SchedIdle EXCEPT !.op = "add", !.pc = "respond",
                                    !.status = StatusBadRequest]]
            /\ schedUuids' = schedUuids
       ELSE /\ schedReq' = [schedReq EXCEPT ![c] =
                  [SchedIdle EXCEPT !.op = "add", !.pc = "decoded",
                        !.id = GenerateScheduleUUID,
                        !.event = [Id |-> GenerateScheduleUUID,
                                   AdminState |-> IF body.AdminState = "" THEN "UNLOCKED"
                                                  ELSE body.AdminState]]]
            /\ schedUuids' = schedUuids + 1
    /\ UNCHANGED <<deviceVars, readingVars, coreDataVars, commandVars, metadataVars,
                   scheduleEvents, runningJobs, tickers, schedMutex>>

\* addScheduleEvent: s.mutex.Lock(), s.scheduleEvents[event.Id] = event,
\* s.mutex.Unlock(), and the test of event.AdminState
addScheduleEventStore(c) ==
    /\ schedReq[c].op = "add"
    /\ schedReq[c].pc = "decoded"
    /\ schedMutex = 0
    /\ scheduleEvents' = [scheduleEvents EXCEPT ![schedReq[c].id] = schedReq[c].event]
    /\ schedReq' = [schedReq EXCEPT ![c] =
          IF schedReq[c].event.AdminState = "UNLOCKED"
          THEN [schedReq[c] EXCEPT !.pc = "startJob", !.status = StatusCreated]
          ELSE [schedReq[c] EXCEPT !.pc = "respond", !.status = StatusCreated]]
    /\ UNCHANGED <<deviceVars, readingVars, coreDataVars, commandVars, metadataVars,
                   runningJobs, tickers, schedMutex, schedUuids, schedCalls>>

\* startScheduledJob: time.NewTicker(interval), s.mutex.Lock(),
\* s.runningJobs[event.Id] = ticker, s.mutex.Unlock()
startScheduledJob(c) ==
    /\ schedReq[c].pc = "startJob"
    /\ schedMutex = 0
    /\ tickers' = Append(tickers, Ticker(schedReq[c].id))
    /\ runningJobs' = [runningJobs EXCEPT ![schedReq[c].id] = Len(tickers) + 1]
    /\ schedReq' = [schedReq EXCEPT ![c].pc = "go", ![c].ticker = Len(tickers) + 1]
    /\ UNCHANGED <<deviceVars, readingVars, coreDataVars, commandVars, metadataVars,
                   scheduleEvents, schedMutex, schedUuids, schedCalls>>

\* startScheduledJob: go func() { for range ticker.C { ... } }() and the return
startScheduledJobGo(c) ==
    /\ schedReq[c].pc = "go"
    /\ tickers' = [tickers EXCEPT ![schedReq[c].ticker].running = TRUE]
    /\ schedReq' = [schedReq EXCEPT ![c].pc = "respond"]
    /\ UNCHANGED <<deviceVars, readingVars, coreDataVars, commandVars, metadataVars,
                   scheduleEvents, runningJobs, schedMutex, schedUuids, schedCalls>>

\* the goroutine of a job: a tick of a ticker that has not been stopped runs
\* executeScheduledJob
executeScheduledJob(t) ==
    /\ tickers[t].running
    /\ ~tickers[t].stopped
    /\ ~tickers[t].executed
    /\ tickers' = [tickers EXCEPT ![t].executed = TRUE]
    /\ UNCHANGED <<deviceVars, readingVars, coreDataVars, commandVars, metadataVars,
                   scheduleEvents, runningJobs, schedMutex, schedReq, schedUuids,
                   schedCalls>>

\* updateScheduleEvent up to the lock: the route's id and the decoded body
updateScheduleEventDecode(c, id, body) ==
    /\ schedReq[c].pc = "idle"
    /\ schedCalls < MaxSchedCalls
    /\ schedCalls' = schedCalls + 1
    /\ schedReq' = [schedReq EXCEPT ![c] =
          IF body = SchedBodyMalformed
          THEN [SchedIdle EXCEPT !.op = "update", !.pc = "respond", !.id = id,
                                 !.status = StatusBadRequest]
          ELSE [SchedIdle EXCEPT !.op = "update", !.pc = "decoded", !.id = id,
                                 !.event = [body EXCEPT !.Id = id]]]
    /\ UNCHANGED <<deviceVars, readingVars, coreDataVars, commandVars, metadataVars,
                   scheduleEvents, runningJobs, tickers, schedMutex, schedUuids>>

\* ticker.Stop() and delete(s.runningJobs, id) for the job of id, if it has one
StoppedTickers(id) ==
    IF runningJobs[id] # NoTicker
    THEN [tickers EXCEPT ![runningJobs[id]].stopped = TRUE]
    ELSE tickers

\* updateScheduleEvent: s.mutex.Lock(), the lookup and, if the id exists, the
\* stop of its job and the store; s.mutex.Unlock(), the 404 and the test of
\* updatedEvent.AdminState
updateScheduleEventStore(c) ==
    /\ schedReq[c].op = "update"
    /\ schedReq[c].pc = "decoded"
    /\ schedMutex = 0
    /\ LET id == schedReq[c].id
       IN IF scheduleEvents[id] # NoEvent
          THEN /\ tickers' = StoppedTickers(id)
               /\ runningJobs' = [runningJobs EXCEPT ![id] = NoTicker]
               /\ scheduleEvents' = [scheduleEvents EXCEPT ![id] = schedReq[c].event]
               /\ schedReq' = [schedReq EXCEPT ![c] =
                     [schedReq[c] EXCEPT
                        !.exists = TRUE, !.status = StatusOK,
                        !.pc = IF schedReq[c].event.AdminState = "UNLOCKED"
                               THEN "startJob" ELSE "respond"]]
          ELSE /\ UNCHANGED <<tickers, runningJobs, scheduleEvents>>
               /\ schedReq' = [schedReq EXCEPT ![c].pc = "respond",
                                               ![c].status = StatusNotFound]
    /\ UNCHANGED <<deviceVars, readingVars, coreDataVars, commandVars, metadataVars,
                   schedMutex, schedUuids, schedCalls>>

\* deleteScheduleEvent: s.mutex.Lock() and the lookup
deleteScheduleEventLock(c, id) ==
    /\ schedReq[c].pc = "idle"
    /\ schedCalls < MaxSchedCalls
    /\ schedCalls' = schedCalls + 1
    /\ schedMutex = 0
    /\ schedMutex' = c
    /\ schedReq' = [schedReq EXCEPT ![c] =
          [SchedIdle EXCEPT !.op = "delete", !.pc = "locked", !.id = id,
                            !.exists = scheduleEvents[id] # NoEvent]]
    /\ UNCHANGED <<deviceVars, readingVars, coreDataVars, commandVars, metadataVars,
                   scheduleEvents, runningJobs, tickers, schedUuids>>

\* deleteScheduleEvent, the rest of the locked section: if the id exists,
\* s.stopScheduledJob(id), which starts with its own s.mutex.Lock() and so
\* goes on only when the mutex is free, then stops and forgets the ticker and
\* unlocks, and delete(s.scheduleEvents, id); then s.mutex.Unlock()
deleteScheduleEventUnlock(c) ==
    /\ schedReq[c].op = "delete"
    /\ schedReq[c].pc = "locked"
    /\ LET id == schedReq[c].id
       IN IF schedReq[c].exists
          THEN /\ schedMutex = 0
               /\ tickers' = StoppedTickers(id)
               /\ runningJobs' = [runningJobs EXCEPT ![id] = NoTicker]
               /\ scheduleEvents' = [scheduleEvents EXCEPT ![id] = NoEvent]
               /\ schedReq' = [schedReq EXCEPT ![c].pc = "respond",
                                               ![c].status = StatusOK]
          ELSE /\ UNCHANGED <<tickers, runningJobs, scheduleEvents>>
               /\ schedReq' = [schedReq EXCEPT ![c].pc = "respond",
                                               ![c].status = StatusNotFound]
    /\ schedMutex' = 0
    /\ UNCHANGED <<deviceVars, readingVars, coreDataVars, commandVars, metadataVars,
                   schedUuids, schedCalls>>

\* the handler writes its response and returns
schedRespond(c) ==
    /\ schedReq[c].pc = "respond"
    /\ schedReq' = [schedReq EXCEPT ![c] = SchedIdle]
    /\ UNCHANGED <<deviceVars, readingVars, coreDataVars, commandVars, metadataVars,
                   scheduleEvents, runningJobs, tickers, schedMutex, schedUuids,
                   schedCalls>>

\* the steps of the request of client c after its arrival
SchedulerProgress(c) ==
    \/ addScheduleEventStore(c)
    \/ updateScheduleEventStore(c)
    \/ startScheduledJob(c)
    \/ startScheduledJobGo(c)
    \/ deleteScheduleEventUnlock(c)
    \/ schedRespond(c)

SchedulerNext ==
    \/ \E c \in Clients, b \in SchedBodies : addScheduleEventDecode(c, b)
    \/ \E c \in Clients : addScheduleEventStore(c)
    \/ \E c \in Clients, id \in SchedIds, b \in SchedBodies :
          updateScheduleEventDecode(c, id, b)
    \/ \E c \in Clients : updateScheduleEventStore(c)
    \/ \E c \in Clients : startScheduledJob(c)
    \/ \E c \in Clients : startScheduledJobGo(c)
    \/ \E c \in Clients, id \in SchedIds : deleteScheduleEventLock(c, id)
    \/ \E c \in Clients : deleteScheduleEventUnlock(c)
    \/ \E c \in Clients : schedRespond(c)
    \/ \E t \in TickerIds : executeScheduledJob(t)

SchedulerSpec == Init /\ [][SchedulerNext]_vars

\* SchedulerFairSpec: SchedulerSpec under the scheduling the Go runtime
\* provides: a handler that can take its next step eventually takes it
SchedulerFairSpec ==
    SchedulerSpec /\ \A c \in Clients : WF_vars(SchedulerProgress(c))

\* ---- the claims ----

\* the ids that have an entry in s.stopChannels
Handles == {id \in Ids : stopChannels[id] # NilChan}
\* the ids whose record has IsRunning == true
RunningIds == {id \in Ids : Running(id)}
\* the registry, the stop channels and the loops as the program has them
\* (the loops without the bookkeeping of who closed their channel)
LoopStates == [l \in LoopIds |-> <<loops[l].dev, loops[l].pc, loops[l].ch>>]
\* client c leaves its locked section or writes its response in this step
Steps(c) == req[c].pc \in {"locked", "respond"} /\ req'[c] # req[c]
\* client c arrives with request op in this step
Arrives(c, op) == req[c].pc = "idle" /\ req'[c].pc # "idle" /\ req'[c].op = op

\* C1: at most one live generateDeviceData goroutine exists for any device id
AtMostOneLoopPerDevice ==
    \A id \in Ids : Cardinality(LiveLoops(id)) <= 1

\* C2: whenever no handler is inside its locked section, IsRunning == true only
\* if a live loop exists for the id, and IsRunning == false or an absent record
\* only if no live loop exists for the id
IsRunningIffLiveLoop ==
    mutexW = 0 =>
        \A id \in Ids : Running(id) <=> LiveLoops(id) # {}

\* C3: whenever the mutex is not held exclusively, the ids with an entry in
\* stopChannels are the ids whose record has IsRunning == true
HandlesMatchRunning ==
    mutexW = 0 => Handles = RunningIds

\* C4: once a stop request on a running device has returned, the loop whose
\* channel it closed runs publishSensorReading no more
NoReadingAfterStopReturned ==
    [][\A l \in LoopIds :
          loops[l].sig = "stop" /\ loops[l].retd => ~publishSensorReading(l)]_vars

\* C5: a delete request on a running device does not return while a reading
\* of that device is being emitted, and once it has returned the loop whose
\* channel it closed runs publishSensorReading no more
NoReadingDuringOrAfterDelete ==
    [][/\ \A c \in Clients :
             Respond(c) /\ req[c].op = "delete" /\ req[c].did
                 => \A l \in LoopIds : DeviceId(l) = req[c].id => loops[l].pc # "tick"
       /\ \A l \in LoopIds :
             loops[l].sig = "delete" /\ loops[l].retd => ~publishSensorReading(l)]_vars

\* C6: under fair scheduling a loop whose stop channel has been closed by stop
\* or delete eventually returns (or the whole process has ended)
CancelledLoopTerminates ==
    \A l \in 1..MaxLoops :
        (l \in LoopIds /\ loops[l].sig # "none")
            ~> (crashed \/ (l \in LoopIds /\ loops[l].pc = "done"))

\* C7: after start(id); stop(id) has been executed n >= 1 times in sequence,
\* the device has no live loop, no stopChannels entry and IsRunning == false
StartStopLeavesNothing ==
    calls > 0 /\ calls % 2 = 0 /\ req[1].pc = "idle" =>
        \A id \in Ids :
            /\ LiveLoops(id) = {}
            /\ stopChannels[id] = NilChan
            /\ ~Running(id)

\* C8: start requests on the same device that are not separated by a stop or a
\* delete (their channel is still open) spawn one loop and make one channel
\* between them: the others find the device running and change nothing, and
\* all of them answer 200
ConcurrentStartsSpawnOnce ==
    \A id \in Ids :
        /\ Cardinality({l \in LoopIds : DeviceId(l) = id /\ ~chans[loops[l].made]}) <= 1
        /\ \A c1, c2 \in Clients :
              /\ c1 # c2
              /\ req[c1].op = "start" /\ req[c1].id = id /\ req[c1].pc = "respond"
              /\ req[c2].op = "start" /\ req[c2].id = id /\ req[c2].pc = "respond"
              /\ req[c1].did /\ req[c2].did
              => chans[req[c1].ch] \/ chans[req[c2].ch]
        /\ \A c \in Clients :
              req[c].op = "start" /\ req[c].id = id /\ req[c].pc = "respond" /\ req[c].exists
              => /\ ResponseStatus(req[c]) = StatusOK
                 /\ \E l \in LoopIds : DeviceId(l) = id
                 /\ ~req[c].did => req[c].ch = NilChan

\* C8 witness: two start requests on the same device are in flight together,
\* one has spawned the loop and the other has found the device running
ConcurrentStartsWitness ==
    \E c1, c2 \in Clients :
        /\ c1 # c2
        /\ req[c1].op = "start" /\ req[c1].pc = "respond" /\ req[c1].did
        /\ req[c2].op = "start" /\ req[c2].pc = "respond" /\ ~req[c2].did
        /\ req[c1].id = req[c2].id
        /\ Cardinality(LiveLoops(req[c1].id)) = 1

\* C9: a start request that finds the device running goes through its locked
\* section and its response without changing the records, the stop channels
\* or the loops, and answers 200
StartOnRunningIsNoOp ==
    [][\A c \in Clients :
          /\ Arrives(c, "start") /\ Running(req'[c].id)
                => /\ UNCHANGED <<virtualDevices, heap, stopChannels, chans, loops>>
                   /\ ~req'[c].did
          /\ Steps(c) /\ req[c].op = "start" /\ req[c].exists /\ ~req[c].did
                => /\ UNCHANGED <<virtualDevices, heap, stopChannels, chans>>
                   /\ LoopStates' = LoopStates
                   /\ req'[c].pc \in {"respond", "idle"}
                   /\ ResponseStatus(req[c]) = StatusOK]_vars

\* C9 witness: a start request that found its device running is about to answer
StartOnRunningWitness ==
    \E c \in Clients :
        /\ req[c].op = "start" /\ req[c].pc = "respond"
        /\ req[c].exists /\ ~req[c].did
        /\ Running(req[c].id)

\* C10: a stop request that finds the device stopped goes through its locked
\* section and its response without closing a channel and without changing
\* the records, the stop channels or the loops, and answers 200
StopOnStoppedIsNoOp ==
    [][\A c \in Clients :
          /\ Arrives(c, "stop") /\ Exists(req'[c].id) /\ ~Running(req'[c].id)
                => /\ UNCHANGED <<virtualDevices, heap, stopChannels, chans, loops>>
                   /\ ~req'[c].did
          /\ Steps(c) /\ req[c].op = "stop" /\ req[c].exists /\ ~req[c].did
                => /\ UNCHANGED <<virtualDevices, heap, stopChannels, chans>>
                   /\ LoopStates' = LoopStates
                   /\ req'[c].pc \in {"respond", "idle"}
                   /\ ResponseStatus(req[c]) = StatusOK]_vars

\* C10 witness: a stop request that found its device stopped is about to answer
StopOnStoppedWitness ==
    \E c \in Clients :
        /\ req[c].op = "stop" /\ req[c].pc = "respond"
        /\ req[c].exists /\ ~req[c].did
        /\ Exists(req[c].id) /\ ~Running(req[c].id)

\* the requests that address an existing device by its id
ById == {"get", "update", "delete", "start", "stop"}
\* the loops that are inside publishSensorReading for device id
Emitting(id) == {l \in LoopIds : DeviceId(l) = id /\ loops[l].pc = "tick"}

\* C11: no start, stop, delete or update request panics: close is never
\* applied to a nil stopChannels entry nor to a channel that is closed already
NoLifecyclePanic ==
    \A c \in Clients : req[c].pc # "panic"

\* C11 witness: a stop of a running device has closed the channel and is
\* about to answer while a delete of the same device is in its locked section
StopAndDeleteInFlight ==
    \E c1, c2 \in Clients :
        /\ req[c1].op = "stop" /\ req[c1].pc = "respond" /\ req[c1].did
        /\ chans[req[c1].ch]
        /\ req[c2].op = "delete" /\ req[c2].pc = "locked" /\ req[c2].exists
        /\ req[c2].id = req[c1].id

\* C12: the step that inserts a created record, and the step that releases the
\* lock after it, leave the new record with IsRunning == false, with no
\* stopChannels entry and with no loop, whatever the body carries
CreatedDeviceIsStopped ==
    [][\A c \in Clients :
          \/ Arrives(c, "create")
          \/ (Steps(c) /\ req[c].op = "create" /\ req[c].pc = "locked")
          => LET id == req'[c].id
             IN /\ virtualDevices'[id] # NoObj
                /\ ~heap'[virtualDevices'[id]].IsRunning
                /\ stopChannels'[id] = NilChan
                /\ \A l \in 1..Len(loops') : heap'[loops'[l].dev].Id # id]_vars

\* C12 witness: a create whose body carries isRunning true has inserted its
\* record and is about to answer
CreatedWithIsRunningSent ==
    \E c \in Clients :
        /\ req[c].op = "create" /\ req[c].pc = "respond"
        /\ heap[req[c].obj].Name = BodyFull.Name
        /\ BodyFull.IsRunning

MissingNameIsRejected ==
    [][\A c \in Clients :
          Arrives(c, "create")
          /\ (heap'[req'[c].obj].Name = "" \/ heap'[req'[c].obj].ProfileName = "")
          => /\ virtualDevices' = virtualDevices
             /\ ResponseStatus(req'[c]) = StatusBadRequest]_vars

ReadingStampsRegistryRecord ==
    [][\A l \in LoopIds :
          publishSensorReading(l) /\ Running(DeviceId(l))
          => /\ virtualDevices[DeviceId(l)] = loops[l].dev
             /\ heap'[virtualDevices'[DeviceId(l)]].LastReading = 1]_vars

\* C18: a reading a loop emits is the reading generateReading gives for the
\* record the registry holds under the device's id at that moment
ReadingFromRegistryRecord ==
    [][\A l \in LoopIds :
          publishSensorReading(l) /\ Exists(DeviceId(l))
          => loops'[l].reading = generateReading(heap[virtualDevices[DeviceId(l)]])]_vars

\* C19: no two loops are inside publishSensorReading for the same device id
OneEmissionAtATime ==
    \A id \in Ids : Cardinality(Emitting(id)) <= 1

\* C20: a step that changes the records, the registry map or the stop
\* channels is taken by the holder of the exclusive lock, and no unlocked
\* read of a map meets a write of it (the runtime never stops the process)
WritesHoldExclusiveLock ==
    [][/\ <<virtualDevices, heap, stopChannels>>' # <<virtualDevices, heap, stopChannels>>
             => mutexW # 0 \/ mutexW' # 0
       /\ ~crashed']_vars

\* the requests that change a device
Lifecycle == {"start", "stop", "update", "delete"}
\* the objects whose fields the response of request r is encoded from
Encoded(r) == IF r.op = "list" THEN r.objs
              ELSE IF r.op = "get" /\ r.exists THEN {r.obj} ELSE {}
\* device id has had a loop tick
HasTicked(id) == \E l \in LoopIds : DeviceId(l) = id /\ loops[l].reading # NoReading

\* C21: from the end of the read-locked section of a get or list request to
\* the encoding of its response, the IsRunning and LastReading of the records
\* it returns do not change
ResponseIsSnapshot ==
    [][\A c \in Clients :
          req[c].pc = "respond" /\ req[c].op \in {"get", "list"}
          => \A o \in Encoded(req[c]) :
                /\ heap'[o].IsRunning = heap[o].IsRunning
                /\ heap'[o].LastReading = heap[o].LastReading]_vars

\* C24: under fair scheduling a loop whose device is neither stopped nor
\* deleted emits a reading again and again, and the reading of a temperature
\* device carries unit Celsius
StartedDeviceKeepsEmitting ==
    /\ \A l \in 1..MaxLoops :
          (l \in LoopIds /\ loops[l].sig = "none" /\ loops[l].pc # "tick")
              ~> (l \in LoopIds /\ (loops[l].pc = "tick" \/ loops[l].sig # "none"))
    /\ [](\A l \in LoopIds :
             loops[l].reading # NoReading /\ heap[loops[l].dev].Type = "temperature"
             => loops[l].reading.Units = "Celsius")

\* C25: a loop returns only from its select, on a stop channel that is closed,
\* and a loop inside publishSensorReading goes back to the select
LoopEndsOnlyOnSignal ==
    [][\A l \in LoopIds :
          /\ loops[l].pc # "done" /\ loops'[l].pc = "done"
                => loops[l].pc = "select" /\ CanReceive(loops[l].ch)
          /\ loops[l].pc = "tick" => loops'[l].pc \in {"tick", "enter"}]_vars

\* C25 witness: a loop that has emitted a reading is waiting in its select again
LoopBackInSelect ==
    \E l \in LoopIds : loops[l].reading # NoReading /\ loops[l].pc = "select"

\* C26: a step of a start, stop, update or delete request for device A changes
\* neither the record, the stop channel nor the loops of another device B, and
\* never ends the process under a live loop of another device
OtherDevicesUntouched ==
    [][/\ \A c \in Clients :
             \/ \E op \in Lifecycle : Arrives(c, op)
             \/ (Steps(c) /\ req[c].op \in Lifecycle)
             => LET a == IF req[c].pc = "idle" THEN req'[c].id ELSE req[c].id
                IN \A b \in Ids \ {a} :
                      /\ virtualDevices'[b] = virtualDevices[b]
                      /\ stopChannels'[b] = stopChannels[b]
                      /\ Exists(b) => heap'[virtualDevices[b]] = heap[virtualDevices[b]]
                      /\ \A l \in LoopIds : DeviceId(l) = b => loops'[l] = loops[l]
       /\ crashed' /\ ~crashed
             => \A l \in LoopIds, c \in Clients :
                   Live(l) /\ req[c].pc = "locked" /\ req[c].op \in Lifecycle /\ req[c].did
                   => req[c].id = DeviceId(l)]_vars

\* C27: every record of the registry has adminState LOCKED or UNLOCKED and
\* operatingState UP, DOWN or UNKNOWN
StatesAreEnumerated ==
    \A id \in Ids :
        Exists(id) => /\ heap[virtualDevices[id]].AdminState \in {"LOCKED", "UNLOCKED"}
                      /\ heap[virtualDevices[id]].OperatingState \in {"UP", "DOWN", "UNKNOWN"}

\* C28: the record of a device that has had no loop tick has the zero
\* LastReading
LastReadingOnlyFromTicks ==
    \A id \in Ids :
        Exists(id) /\ ~HasTicked(id) => heap[virtualDevices[id]].LastReading = ZeroTime

\* the range of values documented for a kind, in hundredths: [lo, hi)
DocumentedRange(kind) ==
    IF kind = "temperature" THEN <<2000, 3500>>
    ELSE IF kind = "humidity" THEN <<3000, 7000>>
    ELSE IF kind = "pressure" THEN <<101300, 103300>>
    ELSE <<0, 10000>>
\* the unit documented for a kind
DocumentedUnits(kind) ==
    IF kind = "temperature" THEN "Celsius"
    ELSE IF kind = "humidity" THEN "Percent"
    ELSE IF kind = "pressure" THEN "hPa"
    ELSE "Units"

\* C22: the two-decimal value of a reading denotes a number inside the
\* half-open range documented for the kind of its device
ValueInDocumentedRange ==
    sampled.kind # "none"
    => /\ DocumentedRange(sampled.kind)[1] <= sampled.value
       /\ sampled.value < DocumentedRange(sampled.kind)[2]

\* C23: generateReading gives the unit documented for the kind: Celsius,
\* Percent, hPa, and Units for every other type, the missing one included
UnitsAsDocumented ==
    sampled.kind # "none" => sampled.units = DocumentedUnits(sampled.kind)

\* C23 witness: generateReading has been called on a device without a type
UnitsOfMissingType ==
    sampled.kind = "" /\ sampled.units = "Units"

\* the addEvent requests without an id that have drawn their id and not
\* stored their event yet
PendingInserts ==
    {c \in Clients : /\ dataReq[c].op = "addEvent" /\ dataReq[c].pc = "decoded"
                     /\ dataReq[c].id # GivenId}

\* C29: the store holds one event for every addEvent request without an id
\* that has gone through its locked section, each under its own generated id
NoLostInsert ==
    /\ events \ {GivenId} \subseteq 1..uuids
    /\ Cardinality(events \ {GivenId}) = uuids - Cardinality(PendingInserts)

\* C29 witness: two addEvent requests without an id that were in flight
\* together have both stored their event
ConcurrentInsertsStored ==
    \E c1, c2 \in Clients :
        /\ c1 # c2
        /\ dataReq[c1].op = "addEvent" /\ dataReq[c1].pc = "respond"
        /\ dataReq[c2].op = "addEvent" /\ dataReq[c2].pc = "respond"
        /\ {dataReq[c1].id, dataReq[c2].id} \subseteq events
        /\ dataReq[c1].id # dataReq[c2].id
        /\ GivenId \notin {dataReq[c1].id, dataReq[c2].id}

\* C30: a getAllEvents request does not fail, counts the events of the store
\* and answers a page of min(limit, max(0, T - offset)) events
GetAllEventsPage ==
    \A c \in Clients :
        dataReq[c].op = "getAllEvents"
        => /\ dataReq[c].pc # "panic"
           /\ dataReq[c].pc = "locked" => dataReq[c].total = Cardinality(events)
           /\ dataReq[c].pc = "respond"
                 => LET rest == dataReq[c].total - dataReq[c].offset
                        most == IF rest > 0 THEN rest ELSE 0
                    IN dataReq[c].page = IF dataReq[c].limit < most
                                         THEN dataReq[c].limit ELSE most

\* C34: the registry is keyed consistently: the record stored under a key of
\* virtualDevices has that key as its Id, and every key of stopChannels is a
\* key of virtualDevices
RegistryKeyedConsistently ==
    \A k \in Ids :
        /\ Exists(k) => heap[virtualDevices[k]].Id = k
        /\ stopChannels[k] # NilChan => Exists(k)

\* C34: a running device has been deleted, its loop signalled by the delete,
\* while a device created over HTTP is in the registry
DeletedRunningAndCreated ==
    /\ \E k \in deleted : \E l \in LoopIds :
           DeviceId(l) = k /\ loops[l].sig = "delete" /\ ~Exists(k)
    /\ \E k \in Ids : k > NumDefaultDevices /\ Exists(k)

\* C33: the constructed service holds exactly the three default devices
\* (temperature, humidity, pressure), none running and none with a stop
\* channel; once Initialize has returned every device of the registry is
\* running with one stop channel and exactly one loop, and a second call of
\* Initialize spawns no further loop
DefaultsThenOneLoopEach ==
    LET registry == {i \in Ids : Exists(i)}
    IN /\ main.inits = 0
          => /\ Cardinality(registry) = 3
             /\ {heap[virtualDevices[i]].Type : i \in registry}
                   = {"temperature", "humidity", "pressure"}
             /\ \A i \in registry : ~Running(i)
             /\ \A i \in Ids : stopChannels[i] = NilChan
             /\ loops = <<>>
       /\ main.pc = "serving"
          => \A i \in registry :
                /\ Running(i)
                /\ stopChannels[i] # NilChan
                /\ Cardinality({l \in LoopIds : DeviceId(l) = i}) = 1
       /\ main.inits >= 2 => Len(loops) = Cardinality(registry)

\* C33: Initialize has been called a second time and has returned
InitializedTwice ==
    /\ main.inits = 2
    /\ main.pc = "serving"
    /\ ~crashed

\* C31: Core Command stores one response exactly when a command is accepted:
\* the entries of commandResponses number the requests answered or about to
\* be answered with 200, a GET of an unknown command is answered 404, a SET
\* whose body is not a JSON object 400, a SET of another command than
\* SetPoint 405, and every other GET and SET 200
CommandStoredIffAccepted ==
    /\ Cardinality(commandResponses)
          = commandOKs + Cardinality({c \in Clients : commandReq[c].pc = "respond"
                                                     /\ commandReq[c].status = 200})
    /\ \A c \in Clients :
          commandReq[c].pc = "respond"
          => commandReq[c].status =
               IF commandReq[c].op = "get"
               THEN IF commandReq[c].command \in {"Temperature", "Humidity", "SetPoint"}
                    THEN 200 ELSE 404
               ELSE IF commandReq[c].body \in {"array", "malformed"} THEN 400
               ELSE IF commandReq[c].command # "SetPoint" THEN 405
               ELSE 200

\* C31: two accepted commands that were in flight together have both been
\* stored, under different ids
ConcurrentCommandsStored ==
    \E c1, c2 \in Clients :
        /\ c1 # c2
        /\ commandReq[c1].pc = "respond" /\ commandReq[c1].status = 200
        /\ commandReq[c2].pc = "respond" /\ commandReq[c2].status = 200
        /\ commandReq[c1].op = "get" /\ commandReq[c2].op = "set"
        /\ {commandReq[c1].id, commandReq[c2].id} = commandResponses

\* C32: the step of updateDevice that finds its id in the store replaces the
\* descriptive fields by the request's values, keeps the record's id and its
\* Created value, sets Modified to the time of the update, answers 200, and
\* changes neither the set of stored devices nor any other device
UpdateKeepsIdAndCreated ==
    [][\A c \in Clients :
         (/\ metaReq[c].op = "update"
          /\ metaReq[c].pc = "decoded"
          /\ metaReq'[c].pc = "respond"
          /\ devices[metaReq[c].id] # NoDevice)
         => LET id == metaReq[c].id
                sent == metaReq[c].body
                old == devices[id]
                new == devices'[id]
            IN /\ new.Id = id
               /\ new.Created = old.Created
               /\ new.Modified = metaClock'
               /\ new.Name = sent.Name
               /\ new.Description = sent.Description
               /\ new.AdminState = sent.AdminState
               /\ new.OperatingState = sent.OperatingState
               /\ metaReq'[c].status = 200
               /\ \A k \in MetaIds \ {id} : devices'[k] = devices[k]
               /\ {k \in MetaIds : devices'[k] # NoDevice}
                     = {k \in MetaIds : devices[k] # NoDevice}]_vars

\* C32: an update whose body carried an id and timestamps of its own has been
\* stored, later than the device was created
UpdatedWithOwnStamps ==
    \E c \in Clients :
        /\ metaReq[c].op = "update"
        /\ metaReq[c].pc = "respond"
        /\ metaReq[c].status = 200
        /\ metaReq[c].body = MetaBodyStamped
        /\ metaReq[c].id # MetaBodyStamped.Id
        /\ devices[metaReq[c].id] # NoDevice
        /\ devices[metaReq[c].id].Modified > devices[metaReq[c].id].Created

\* C35: a deleteScheduleEvent that has found its schedule event goes on to
\* answer 200 with the service mutex released
DeleteScheduleEventReturns ==
    \A c \in Clients :
        (schedReq[c].op = "delete" /\ schedReq[c].pc = "locked" /\ schedReq[c].exists)
        ~> (/\ schedReq[c].op = "delete"
            /\ schedReq[c].pc = "respond"
            /\ schedReq[c].status = 200
            /\ schedMutex = 0)

\* C36: the tickers of a schedule event that run a job goroutine and have not
\* been stopped are at most one, the one that runningJobs records
OneActiveTickerPerEvent ==
    \A id \in SchedIds :
        LET active == {t \in TickerIds : /\ tickers[t].id = id
                                         /\ tickers[t].running
                                         /\ ~tickers[t].stopped}
        IN /\ Cardinality(active) <= 1
           /\ \A t \in active : runningJobs[id] = t

====
